---- MODULE Spec2Model ----
(***************************************************************************)
(* Model of the non-threaded trackers of python-trackers                   *)
(* (src/src/trackers/trackers.py, src/src/trackers/misc.py).               *)
(*                                                                         *)
(* SpecFor   : one ForTracker wrapped around a caller-supplied iterable,   *)
(*             driven by arbitrary __iter__ / __next__ calls.              *)
(* SpecWhile : the WhileTrackerMeta registry, WhileTracker construction    *)
(*             and evaluation (__bool__), with the class-level InfSeq.     *)
(* SpecSeq   : one InfSeq over a caller-supplied sequence, drawn from.     *)
(* SpecFunc  : FuncTracker applied to a function, and calls of the         *)
(*             resulting _FuncTracker.                                     *)
(* SpecRace  : two threads that each construct the same WhileTracker and   *)
(*             evaluate it, statement by statement.                        *)
(***************************************************************************)
EXTENDS Integers, Sequences, FiniteSets, TLC

VARIABLES
    now,        \* the clock: the reading the next perf_counter() returns
    out,        \* standard output: the printed lines, each with its terminator
    hist,       \* the calls made so far (on the ForTracker, the InfSeq), with their outcomes
    tracker,    \* the ForTracker instance (its attributes, the wrapped iterable included)
    instances,  \* WhileTrackerMeta.instances : hash -> WhileTracker instance
    hashOf,     \* the values hash((cls, name)) takes in this process
    prog,       \* WhileTracker.prog : the class-level InfSeq
    call,       \* the last WhileTracker.__bool__ call: the instance and the value returned
    handles,    \* (cls, name) -> id of the instance its last construction returned
    supplied,   \* (cls, name) -> the expr its last construction was given
    deco,       \* the arguments FuncTracker was applied with
    ftracker,   \* the _FuncTracker instance
    frame,      \* the _FuncTracker.__call__ under way: its position and locals
    heap,       \* SpecRace: the WhileTracker objects created, by identity
    registry,   \* SpecRace: WhileTrackerMeta.instances, hash -> identity
    threads,    \* SpecRace: each thread's position and locals
    overlap     \* SpecRace: some call ran while a call of the other thread was under way

vars == <<now, out, hist, tracker, instances, hashOf, prog, call, handles, supplied,
          deco, ftracker, frame, heap, registry, threads, overlap>>

funcVars == <<deco, ftracker, frame>>

raceVars == <<heap, registry, threads, overlap>>

forVars == <<hist, tracker>>

whileVars == <<instances, hashOf, prog, call, handles, supplied>>

----------------------------------------------------------------------------
(* Bounds *)

MaxLen == 3      \* longest wrapped sequence
MaxOps == 6      \* calls made on the ForTracker in one behaviour
MaxOut == 3      \* lines the condition trackers print in one behaviour
MaxDraws == 8    \* draws from the InfSeq in one behaviour
MaxCalls == 2    \* calls of the _FuncTracker in one behaviour
MaxFlags == 2    \* flags the wrapped function places in one behaviour
MaxRounds == 1   \* constructions followed by an evaluation, per thread

Elems == {"a", "b", "c"}

NoFail == 0 - 1

SeqsUpTo(n) == UNION {[1..k -> Elems] : k \in 0..n}

\* Python's None
None == "None"

\* the variables of the specifications that are not running
NoFunc == deco = None /\ ftracker = None /\ frame = [pc |-> "off"]

NoRace == heap = <<>> /\ registry = <<>> /\ threads = <<>> /\ overlap = FALSE

----------------------------------------------------------------------------
(* The iterable collaborator.                                              *)
(*   list : sized, not an iterator; iter() gives a list_iterator at 0      *)
(*   gen  : a generator: unsized, its own iterator; it may raise once,     *)
(*          before yielding element failAt+1, and is finished afterwards   *)

ListIterable(s) ==
    [kind |-> "list", elems |-> s, isIter |-> FALSE, pos |-> 0,
     failAt |-> NoFail, dead |-> FALSE]

GenIterable(s, f) ==
    [kind |-> "gen", elems |-> s, isIter |-> TRUE, pos |-> 0,
     failAt |-> f, dead |-> FALSE]

Iterables ==
    {ListIterable(s) : s \in SeqsUpTo(MaxLen)}
    \cup UNION {{GenIterable(s, f) : f \in {NoFail} \cup (0..Len(s))} : s \in SeqsUpTo(MaxLen)}

\* len(it): defined for a list, TypeError for a generator or a list_iterator
HasLen(it) == it.kind = "list" /\ ~it.isIter

\* iter(it): a fresh list_iterator for a list, the object itself for an iterator
iter(it) == IF it.isIter THEN it ELSE [it EXCEPT !.isIter = TRUE, !.pos = 0]

\* next(it): "TypeError" (not an iterator), "error" (the generator raises),
\* "StopIteration" or "value"
NextOutcome(it) ==
    IF ~it.isIter THEN "TypeError"
    ELSE IF it.dead THEN "StopIteration"
    ELSE IF it.failAt = it.pos THEN "error"
    ELSE IF it.pos >= Len(it.elems) THEN "StopIteration"
    ELSE "value"

NextValue(it) == it.elems[it.pos + 1]

\* the iterator after next(it)
NextIt(it) ==
    CASE NextOutcome(it) = "value" -> [it EXCEPT !.pos = @ + 1]
      [] NextOutcome(it) = "error" -> [it EXCEPT !.dead = TRUE]
      [] OTHER -> it

----------------------------------------------------------------------------
(* misc.InfSeq *)

InfSeq_init(seq) == [seq |-> seq, i |-> 0]

InfSeq_at_early(self) == IF self.i = Len(self.seq) - 1 THEN 0 ELSE self.i

\* the cursor InfSeq.__next__ reads at: wrapped to 0 when it has run off the end
InfSeq_at(self) == IF self.i = Len(self.seq) THEN 0 ELSE self.i

\* the element InfSeq.__next__ returns (Python indexes from 0)
InfSeq_value(self) == self.seq[InfSeq_at(self) + 1]

\* indexing the backing sequence there: an element, or IndexError
InfSeq_outcome(self) == IF InfSeq_at(self) < Len(self.seq) THEN "value" ELSE "IndexError"

InfSeq_next_unwrapped(self) == [self EXCEPT !.i = @ + 1]

\* the InfSeq after __next__
InfSeq_next(self) == [self EXCEPT !.i = InfSeq_at(self) + 1]

Glyphs == <<"-", "\\", "|", "/">>

----------------------------------------------------------------------------
(* Tracker / LoopTracker.  perf_counter() is a monotonic clock: a reading  *)
(* returns now, and the next reading is one tick later.  The operators     *)
(* below take the reading t they are evaluated with.                       *)

Tracker_init(name, t) == [name |-> name, call_time |-> t]

LoopTracker_init(name, t) == Tracker_init(name, t) @@ [it_i |-> 0, end |-> FALSE]

dtime(self, t) == t - self.call_time

get_end_swapped(self) == IF self.end THEN "\r" ELSE "\n"

get_end(self) == IF self.end THEN "\n" ELSE "\r"

\* Tracker.print of a tracker whose get_msg() is msg: standard output afterwards
print(self, msg) == Append(out, [msg |-> msg, end |-> get_end(self)])

----------------------------------------------------------------------------
(* ForTracker *)

get_len(self) ==
    IF HasLen(self.it)
    THEN self @@ [it_len |-> Len(self.it.elems), it_lenQ |-> TRUE]
    ELSE self @@ [it_lenQ |-> FALSE]

ForTracker_init(name, it, enumQ, t) ==
    get_len(LoopTracker_init(name, t) @@ [it |-> it]) @@ [enumQ |-> enumQ]

ForTracker_get_msg_probing(self, t) ==
    IF HasLen(self.it)
    THEN [it_i |-> self.it_i, it_len |-> self.it_len, name |-> self.name, dtime |-> dtime(self, t)]
    ELSE [it_i |-> self.it_i, name |-> self.name, dtime |-> dtime(self, t)]

ForTracker_get_msg(self, t) ==
    IF self.it_lenQ
    THEN [it_i |-> self.it_i, it_len |-> self.it_len, name |-> self.name, dtime |-> dtime(self, t)]
    ELSE [it_i |-> self.it_i, name |-> self.name, dtime |-> dtime(self, t)]

ForTracker_iter_silent ==
    /\ Len(hist) < MaxOps
    /\ tracker' = [tracker EXCEPT !.it = iter(tracker.it), !.call_time = now]
    /\ out' = out
    /\ now' = now + 1
    /\ hist' = Append(hist, [op |-> "iter", res |-> "self"])
    /\ UNCHANGED <<whileVars, funcVars, raceVars>>

ForTracker_iter_restarting ==
    /\ Len(hist) < MaxOps
    /\ LET self == [tracker EXCEPT !.it = iter(tracker.it), !.call_time = now, !.it_i = 0]
       IN /\ tracker' = self
          /\ out' = print(self, ForTracker_get_msg(self, now + 1))
    /\ now' = now + 2
    /\ hist' = Append(hist, [op |-> "iter", res |-> "self"])
    /\ UNCHANGED <<whileVars, funcVars, raceVars>>

ForTracker_iter_reopening ==
    /\ Len(hist) < MaxOps
    /\ LET self == [tracker EXCEPT !.it = iter(tracker.it), !.call_time = now, !.end = FALSE]
       IN /\ tracker' = self
          /\ out' = print(self, ForTracker_get_msg(self, now + 1))
    /\ now' = now + 2
    /\ hist' = Append(hist, [op |-> "iter", res |-> "self"])
    /\ UNCHANGED <<whileVars, funcVars, raceVars>>

\* ForTracker.__iter__
ForTracker_iter ==
    /\ Len(hist) < MaxOps
    /\ LET self == [tracker EXCEPT !.it = iter(tracker.it), !.call_time = now]
       IN /\ tracker' = self
          /\ out' = print(self, ForTracker_get_msg(self, now + 1))
    /\ now' = now + 2
    /\ hist' = Append(hist, [op |-> "iter", res |-> "self"])
    /\ UNCHANGED <<whileVars, funcVars, raceVars>>

\* ForTracker.__next__ when next(self.it) raises StopIteration
next_StopIteration ==
    LET self == [tracker EXCEPT !.end = TRUE]
    IN /\ tracker' = self
       /\ out' = print(self, ForTracker_get_msg(self, now))
       /\ now' = now + 1
       /\ hist' = Append(hist, [op |-> "next", res |-> "StopIteration"])

Result_from_one(self, r_i, r_val) == IF self.enumQ THEN <<r_i + 1, r_val>> ELSE r_val

\* the value ForTracker.__next__ returns
Result(self, r_i, r_val) == IF self.enumQ THEN <<r_i, r_val>> ELSE r_val

next_value_counting_first ==
    LET r_i == tracker.it_i
        r_val == NextValue(tracker.it)
        self == [tracker EXCEPT !.it = NextIt(tracker.it), !.it_i = @ + 1]
    IN /\ out' = print(self, ForTracker_get_msg(self, now))
       /\ tracker' = self
       /\ now' = now + 1
       /\ hist' = Append(hist, [op |-> "next", res |-> "value",
                                val |-> Result(self, r_i, r_val)])

\* ForTracker.__next__ when next(self.it) returns an element
next_value ==
    LET r_i == tracker.it_i
        r_val == NextValue(tracker.it)
        self == [tracker EXCEPT !.it = NextIt(tracker.it)]
    IN /\ out' = print(self, ForTracker_get_msg(self, now))
       /\ tracker' = [self EXCEPT !.it_i = @ + 1]
       /\ now' = now + 1
       /\ hist' = Append(hist, [op |-> "next", res |-> "value",
                                val |-> Result(self, r_i, r_val)])

next_raise_caught ==
    LET self == [tracker EXCEPT !.it = NextIt(tracker.it), !.end = TRUE]
    IN /\ tracker' = self
       /\ out' = print(self, ForTracker_get_msg(self, now))
       /\ now' = now + 1
       /\ hist' = Append(hist, [op |-> "next", res |-> NextOutcome(tracker.it)])

\* ForTracker.__next__ when next(self.it) raises anything else
next_raise ==
    /\ tracker' = [tracker EXCEPT !.it = NextIt(tracker.it)]
    /\ out' = out
    /\ now' = now
    /\ hist' = Append(hist, [op |-> "next", res |-> NextOutcome(tracker.it)])

\* ForTracker.__next__
ForTracker_next ==
    /\ Len(hist) < MaxOps
    /\ CASE NextOutcome(tracker.it) = "StopIteration" -> next_StopIteration
         [] NextOutcome(tracker.it) = "value" -> next_value
         [] OTHER -> next_raise
    /\ UNCHANGED <<whileVars, funcVars, raceVars>>

InitFor ==
    /\ now = 1
    /\ out = <<>>
    /\ hist = <<>>
    /\ \E it \in Iterables, enumQ \in BOOLEAN : tracker = ForTracker_init("loop", it, enumQ, 0)
    /\ instances = <<>>
    /\ hashOf = <<>>
    /\ prog = InfSeq_init(Glyphs)
    /\ call = [self |-> 0, ret |-> FALSE]
    /\ handles = <<>>
    /\ supplied = <<>>
    /\ NoFunc
    /\ NoRace

NextFor == ForTracker_iter \/ ForTracker_next

SpecFor == InitFor /\ [][NextFor]_vars

----------------------------------------------------------------------------
(* WhileTrackerMeta / WhileTracker *)

\* WhileTracker and a subclass of it; both are created through WhileTrackerMeta
Classes == {"WhileTracker", "SubTracker"}

Names == {"loop", "other"}

\* the (cls, name) pairs the calling code constructs trackers with
Keys == {<<"WhileTracker", "loop">>, <<"WhileTracker", "other">>, <<"SubTracker", "loop">>}

\* hash((cls, name)) is an integer of fixed width that depends on the process
\* (string hashing is keyed per process, a class hashes by its address): any
\* function from the pairs to the integers.  Only which pairs share a value
\* matters, so as many values as there are pairs give every case, and of the
\* functions that differ only by a renaming of the values one is enough: the
\* one that numbers the values in the order of KeyOrder.
HashValues == 1..Cardinality(Keys)

KeyOrder == <<<<"WhileTracker", "loop">>, <<"WhileTracker", "other">>, <<"SubTracker", "loop">>>>

HashFunctions ==
    {f \in [Keys -> HashValues] :
        \A i \in 1..Len(KeyOrder) :
            \A v \in 1..(f[KeyOrder[i]] - 1) :
                \E j \in 1..(i - 1) : f[KeyOrder[j]] = v}

hash(cls, name) == hashOf[<<cls, name>>]

NoId == 0

\* the identity of a newly created object
NewId == Cardinality(DOMAIN instances) + 1

\* super().__call__(name, expr): a new object of class cls, initialised by
\* WhileTracker.__init__
WhileTracker_init(cls, name, expr, t) ==
    LoopTracker_init(name, t) @@ [expr |-> expr, cls |-> cls, id |-> NewId]

\* WhileTrackerMeta.__call__
WhileTrackerMeta_call(cls, name, expr) ==
    LET h == hash(cls, name)
        isNew == h \notin DOMAIN instances
        created == IF isNew
                   THEN instances @@ (h :> WhileTracker_init(cls, name, expr, now))
                   ELSE instances
    IN /\ instances' = [created EXCEPT ![h].expr = expr]
       /\ now' = IF isNew THEN now + 1 ELSE now
       /\ handles' = [handles EXCEPT ![<<cls, name>>] = created[h].id]
       /\ supplied' = [supplied EXCEPT ![<<cls, name>>] = expr]
       /\ UNCHANGED <<out, forVars, hashOf, prog, call, funcVars, raceVars>>

WhileTracker_get_msg_own(self, t) ==
    [it_i |-> self.it_i, prog |-> Glyphs[((self.it_i - 1) % Len(Glyphs)) + 1],
     name |-> self.name, dtime |-> dtime(self, t)]

WhileTracker_get_msg(self, t) ==
    [it_i |-> self.it_i, prog |-> InfSeq_value(prog), name |-> self.name,
     dtime |-> dtime(self, t)]

\* WhileTracker.__bool__ on the instance registered under h
WhileTracker_bool(h) ==
    /\ Len(out) < MaxOut
    /\ LET self == [instances[h] EXCEPT !.end = ~instances[h].expr, !.it_i = @ + 1]
       IN /\ out' = print(self, WhileTracker_get_msg(self, now))
          /\ prog' = InfSeq_next(prog)
          /\ instances' = [instances EXCEPT ![h] = self]
          /\ call' = [self |-> self.id, ret |-> self.expr]
    /\ now' = now + 1
    /\ UNCHANGED <<forVars, hashOf, handles, supplied, funcVars, raceVars>>

Construct == \E k \in Keys, expr \in BOOLEAN : WhileTrackerMeta_call(k[1], k[2], expr)

Evaluate == \E h \in DOMAIN instances : WhileTracker_bool(h)

InitWhile ==
    /\ now = 0
    /\ out = <<>>
    /\ hist = <<>>
    /\ tracker = ForTracker_init("loop", ListIterable(<<>>), FALSE, 0)
    /\ instances = <<>>
    /\ hashOf \in HashFunctions
    /\ prog = InfSeq_init(Glyphs)
    /\ call = [self |-> NoId, ret |-> FALSE]
    /\ handles = [k \in Keys |-> NoId]
    /\ supplied = [k \in Keys |-> FALSE]
    /\ NoFunc
    /\ NoRace

NextWhile == Construct \/ Evaluate

SpecWhile == InitWhile /\ [][NextWhile]_vars

----------------------------------------------------------------------------
(* An InfSeq of its own, over any backing sequence *)

\* InfSeq.__next__
InfSeq_draw ==
    /\ Len(hist) < MaxDraws
    /\ IF InfSeq_outcome(prog) = "value"
       THEN /\ hist' = Append(hist, [op |-> "next", res |-> "value", val |-> InfSeq_value(prog)])
            /\ prog' = InfSeq_next(prog)
       ELSE /\ hist' = Append(hist, [op |-> "next", res |-> "IndexError"])
            /\ prog' = [prog EXCEPT !.i = InfSeq_at(prog)]
    /\ UNCHANGED <<now, out, tracker, instances, hashOf, call, handles, supplied,
                   funcVars, raceVars>>

InitSeq ==
    /\ now = 0
    /\ out = <<>>
    /\ hist = <<>>
    /\ tracker = ForTracker_init("loop", ListIterable(<<>>), FALSE, 0)
    /\ instances = <<>>
    /\ hashOf = <<>>
    /\ \E seq \in SeqsUpTo(MaxLen) \cup {Glyphs} : prog = InfSeq_init(seq)
    /\ call = [self |-> NoId, ret |-> FALSE]
    /\ handles = <<>>
    /\ supplied = <<>>
    /\ NoFunc
    /\ NoRace

NextSeq == InfSeq_draw

SpecSeq == InitSeq /\ [][NextSeq]_vars

----------------------------------------------------------------------------
(* _FuncTracker / FuncTracker / misc.cls_decorator_w_kwargs *)

\* the decorated function, def foo(tracker, ...), and its __name__
foo == "def foo"

func_name(func) == IF func = foo THEN "foo" ELSE None

NameArgs == {None, "", "bar"}

CallMsgArgs == {None, "", "Some call message"}

ExitMsgArgs == {None, "", "Done!"}

\* the arguments of a call, the values the wrapped function returns, the
\* **t_vars of a flag
Args == {<<"a", "b">>}

Returns == {None, "c"}

\* what the wrapped function raises
Raises == {"ValueError", "KeyError"}

FlagArgs == {[timeQ |-> TRUE, t_vars |-> <<>>],
             [timeQ |-> FALSE, t_vars |-> <<<<"first_arg", "a">>>>]}

IsFlag(e) == e.op = "flag"

\* the flags placed so far
Flags == Len(SelectSeq(hist, IsFlag))

\* truth value of a str-or-None
Truthy(x) == x # None /\ x # ""

\* _FuncTracker.__init__ (it does not call Tracker.__init__: no call_time yet)
FuncTracker_init(func, name, call_msg, exit_msg) ==
    [func |-> func,
     name |-> IF ~Truthy(name) THEN func_name(func) ELSE name,
     call_msg |-> call_msg,
     exit_msg |-> exit_msg]

\* misc.cls_decorator_w_kwargs(_FuncTracker, func, **kwargs): the tracker, or
\* the closure `wrapper` with the kwargs it has captured
cls_decorator_w_kwargs(func, kwargs) ==
    IF func # None
    THEN FuncTracker_init(func, None, None, None)
    ELSE [wrapper |-> kwargs]

\* wrapper(func)
wrapper(w, func) ==
    FuncTracker_init(func, w.wrapper.name, w.wrapper.call_msg, w.wrapper.exit_msg)

\* trackers.FuncTracker
FuncTracker(func, name, call_msg, exit_msg) ==
    cls_decorator_w_kwargs(func, [name |-> name, call_msg |-> call_msg, exit_msg |-> exit_msg])

\* FuncTracker(foo, name=.., ..) when direct, FuncTracker(name=.., ..)(foo) otherwise
Decorate ==
    /\ frame.pc = "undecorated"
    /\ \E direct \in BOOLEAN, name \in NameArgs, call_msg \in CallMsgArgs,
          exit_msg \in ExitMsgArgs :
          /\ deco' = [direct |-> direct, name |-> name, call_msg |-> call_msg,
                      exit_msg |-> exit_msg]
          /\ ftracker' = IF direct
                         THEN FuncTracker(foo, name, call_msg, exit_msg)
                         ELSE wrapper(FuncTracker(None, name, call_msg, exit_msg), foo)
    /\ frame' = [pc |-> "idle", calls |-> 0]
    /\ UNCHANGED <<now, out, hist, tracker, whileVars, raceVars>>

\* _FuncTracker.get_msg
FuncTracker_get_msg(self, msg, timeQ, t_vars, t) ==
    [name |-> self.name, msg |-> msg]
    @@ (IF timeQ THEN [dtime |-> dtime(self, t)] ELSE <<>>)
    @@ (IF t_vars # <<>> THEN [t_vars |-> t_vars] ELSE <<>>)

FuncTracker_get_end(self) == "\n"

\* _FuncTracker.print, and flag, which only calls it: standard output afterwards
FuncTracker_print(self, msg, timeQ, t_vars, t) ==
    Append(out, [msg |-> FuncTracker_get_msg(self, msg, timeQ, t_vars, t),
                 end |-> FuncTracker_get_end(self)])

\* the clock after a flag: get_msg reads it only when timeQ
AfterFlag(timeQ, t) == IF timeQ THEN t + 1 ELSE t

FuncTracker_call_stale ==
    /\ frame.pc = "idle"
    /\ frame.calls < MaxCalls
    /\ \E args \in Args :
          LET self == IF "call_time" \in DOMAIN ftracker
                      THEN ftracker ELSE ftracker @@ [call_time |-> now]
              entry == Truthy(self.call_msg)
          IN /\ ftracker' = self
             /\ now' = now + 1
             /\ out' = IF entry THEN FuncTracker_print(self, self.call_msg, FALSE, <<>>, now + 1)
                       ELSE out
             /\ hist' = hist \o <<[op |-> "call", t |-> now, args |-> args, lines |-> Len(out)]>>
                             \o (IF entry THEN <<[op |-> "entry", line |-> Len(out) + 1]>> ELSE <<>>)
                             \o <<[op |-> "func", args |-> <<"self">> \o args]>>
             /\ frame' = [pc |-> "func", calls |-> frame.calls + 1]
    /\ UNCHANGED <<deco, tracker, whileVars, raceVars>>

\* _FuncTracker.__call__ up to the call of the wrapped function
FuncTracker_call ==
    /\ frame.pc = "idle"
    /\ frame.calls < MaxCalls
    /\ \E args \in Args :
          LET self == [f \in DOMAIN ftracker \cup {"call_time"} |->
                          IF f = "call_time" THEN now ELSE ftracker[f]]
              entry == Truthy(self.call_msg)
          IN /\ ftracker' = self
             /\ now' = now + 1
             /\ out' = IF entry THEN FuncTracker_print(self, self.call_msg, FALSE, <<>>, now + 1)
                       ELSE out
             /\ hist' = hist \o <<[op |-> "call", t |-> now, args |-> args, lines |-> Len(out)]>>
                             \o (IF entry THEN <<[op |-> "entry", line |-> Len(out) + 1]>> ELSE <<>>)
                             \o <<[op |-> "func", args |-> <<"self">> \o args]>>
             /\ frame' = [pc |-> "func", calls |-> frame.calls + 1]
    /\ UNCHANGED <<deco, tracker, whileVars, raceVars>>

\* the wrapped function calls tracker.flag(msg, timeQ, **t_vars)
Func_flag ==
    /\ frame.pc = "func"
    /\ Flags < MaxFlags
    /\ \E a \in FlagArgs :
          /\ out' = FuncTracker_print(ftracker, "some flag", a.timeQ, a.t_vars, now)
          /\ now' = AfterFlag(a.timeQ, now)
    /\ hist' = Append(hist, [op |-> "flag", line |-> Len(out) + 1])
    /\ UNCHANGED <<deco, ftracker, frame, tracker, whileVars, raceVars>>

\* the wrapped function returns r
Func_return ==
    /\ frame.pc = "func"
    /\ \E r \in Returns :
          /\ frame' = [pc |-> "returned", calls |-> frame.calls, r |-> r]
          /\ hist' = Append(hist, [op |-> "func_return", val |-> r])
    /\ UNCHANGED <<now, out, deco, ftracker, tracker, whileVars, raceVars>>

Func_raise_finally ==
    /\ frame.pc = "func"
    /\ LET exit == Truthy(ftracker.exit_msg)
       IN /\ out' = IF exit THEN FuncTracker_print(ftracker, ftracker.exit_msg, TRUE, <<>>, now)
                    ELSE out
          /\ now' = IF exit THEN AfterFlag(TRUE, now) ELSE now
          /\ \E exc \in Raises :
                hist' = hist \o <<[op |-> "func_raise", exc |-> exc]>>
                             \o (IF exit THEN <<[op |-> "exit", line |-> Len(out) + 1, t |-> now]>>
                                 ELSE <<>>)
                             \o <<[op |-> "raise", exc |-> exc, lines |-> Len(out')]>>
    /\ frame' = [pc |-> "idle", calls |-> frame.calls]
    /\ UNCHANGED <<deco, ftracker, tracker, whileVars, raceVars>>

\* the wrapped function raises: nothing in __call__ catches it
Func_raise ==
    /\ frame.pc = "func"
    /\ \E exc \in Raises :
          hist' = hist \o <<[op |-> "func_raise", exc |-> exc],
                            [op |-> "raise", exc |-> exc, lines |-> Len(out)]>>
    /\ frame' = [pc |-> "idle", calls |-> frame.calls]
    /\ UNCHANGED <<now, out, deco, ftracker, tracker, whileVars, raceVars>>

\* _FuncTracker.__call__ after the wrapped function has returned
FuncTracker_exit ==
    /\ frame.pc = "returned"
    /\ LET exit == Truthy(ftracker.exit_msg)
       IN /\ out' = IF exit THEN FuncTracker_print(ftracker, ftracker.exit_msg, TRUE, <<>>, now)
                    ELSE out
          /\ now' = IF exit THEN AfterFlag(TRUE, now) ELSE now
          /\ hist' = hist \o (IF exit THEN <<[op |-> "exit", line |-> Len(out) + 1, t |-> now]>>
                              ELSE <<>>)
                          \o <<[op |-> "return", val |-> frame.r, lines |-> Len(out')]>>
    /\ frame' = [pc |-> "idle", calls |-> frame.calls]
    /\ UNCHANGED <<deco, ftracker, tracker, whileVars, raceVars>>

InitFunc ==
    /\ now = 0
    /\ out = <<>>
    /\ hist = <<>>
    /\ tracker = ForTracker_init("loop", ListIterable(<<>>), FALSE, 0)
    /\ instances = <<>>
    /\ hashOf = <<>>
    /\ prog = InfSeq_init(Glyphs)
    /\ call = [self |-> NoId, ret |-> FALSE]
    /\ handles = <<>>
    /\ supplied = <<>>
    /\ deco = None
    /\ ftracker = None
    /\ frame = [pc |-> "undecorated"]
    /\ NoRace

NextFunc ==
    \/ Decorate
    \/ FuncTracker_call
    \/ Func_flag
    \/ Func_return
    \/ Func_raise
    \/ FuncTracker_exit

SpecFunc == InitFunc /\ [][NextFunc]_vars

----------------------------------------------------------------------------
(* Vocabulary of the ForTracker claims *)

N == Len(tracker.it.elems)

IsValue(e) == e.res = "value"

\* the values __next__ has returned so far, in order
Produced == SelectSeq(hist, IsValue)

ValuesBefore(j) == Len(SelectSeq(SubSeq(hist, 1, j - 1), IsValue))

IterBefore(j) == \E i \in 1..(j - 1) : hist[i].op = "iter"

\* a `for` loop under way on the fresh tracker: one __iter__, then __next__
\* calls that each returned an element, the last one possibly StopIteration
InLoop ==
    /\ Len(hist) >= 1
    /\ hist[1].op = "iter"
    /\ \A j \in 2..Len(hist) :
          \/ hist[j].res = "value"
          \/ j = Len(hist) /\ hist[j].res = "StopIteration"

\* the `for` loop has run to exhaustion
OnePass == InLoop /\ hist[Len(hist)].res = "StopIteration"

\* the attributes of the tracker other than the state of the wrapped iterator
Attrs(self) == [f \in DOMAIN self \ {"it"} |-> self[f]]

----------------------------------------------------------------------------
(* C1 (as stated): a fresh ForTracker with enumQ = False, driven by one    *)
(* `for` loop to exhaustion over a sequence of length N, has emitted       *)
(* exactly N+1 lines.                                                      *)
C1_Original == (OnePass /\ ~tracker.enumQ) => Len(out) = N + 1

(* C1 (amended): a fresh ForTracker with enumQ = False, driven by one      *)
(* `for` loop to exhaustion over a sequence of length N, has emitted       *)
(* exactly N+2 lines: the begin-iteration line, one line per element and   *)
(* the final line (5 lines for a 3-element sequence).                      *)
C1_Lines == (OnePass /\ ~tracker.enumQ) => Len(out) = N + 2

C1_Witness == OnePass /\ ~tracker.enumQ /\ N = 3 /\ Len(out) = 5

(* C2: once a fresh ForTracker has been driven to exhaustion, the          *)
(* exhausted __next__ has set end, emitted exactly one line, terminated    *)
(* with a newline, and raised StopIteration; every earlier line ends with  *)
(* the overwrite terminator, so the only newline-terminated line is the    *)
(* last one.                                                               *)
C2_FinalLine ==
    OnePass =>
        /\ tracker.end
        /\ Len(out) = Len(hist)
        /\ out[Len(out)].end = "\n"
        /\ \A k \in 1..(Len(out) - 1) : out[k].end = "\r"

C2_Witness ==
    /\ OnePass
    /\ N = 2
    /\ Len(out) = 4
    /\ out[4].end = "\n"
    /\ out[3].end = "\r"

(* C3: the k-th successful __next__ returns s[k] (the pair (k, s[k]) in    *)
(* enumeration mode), in the original order, nothing skipped, duplicated   *)
(* or added; a __next__ of the loop signals exhaustion exactly when all N  *)
(* elements have been returned.                                            *)
C3_Proxy ==
    /\ Len(Produced) <= N
    /\ \A k \in 1..Len(Produced) :
          IF tracker.enumQ
          THEN Produced[k].val = <<k - 1, tracker.it.elems[k]>>
          ELSE Produced[k].val = tracker.it.elems[k]
    /\ \A j \in 1..Len(hist) :
          (hist[j].op = "next" /\ IterBefore(j) /\ tracker.it.failAt = NoFail) =>
              (hist[j].res = "StopIteration" <=> ValuesBefore(j) = N)

C3_Witness ==
    /\ OnePass
    /\ tracker.enumQ
    /\ tracker.it.elems = <<"a", "b", "c">>
    /\ Len(Produced) = 3
    /\ Produced[1].val = <<0, "a">>
    /\ Produced[2].val = <<1, "b">>
    /\ Produced[3].val = <<2, "c">>

(* C4: in a `for` loop over a fresh ForTracker, the line emitted while     *)
(* producing the k-th element (0-based) renders index k and it_i is k+1    *)
(* once it is returned; the rendered indices of a pass are 0, 0, 1, ...,   *)
(* N-1, N.                                                                 *)
C4_Indices ==
    InLoop =>
        /\ Len(out) = Len(hist)
        /\ out[1].msg.it_i = 0
        /\ \A j \in 2..Len(out) : out[j].msg.it_i = j - 2
        /\ tracker.it_i = Len(Produced)
        /\ OnePass => out[Len(out)].msg.it_i = N

C4_Witness ==
    /\ OnePass
    /\ N = 3
    /\ out[1].msg.it_i = 0
    /\ out[2].msg.it_i = 0
    /\ out[4].msg.it_i = 2
    /\ out[5].msg.it_i = 3

(* C5: whether the total is known is decided at construction: for a sized  *)
(* iterable it_lenQ is true, it_len its size and every line renders the    *)
(* total; for an unsized one it_lenQ is false and every line omits the     *)
(* total; no later operation changes it_lenQ or it_len.                    *)
C5_Length ==
    IF tracker.it.kind = "list"
    THEN /\ tracker.it_lenQ
         /\ tracker.it_len = N
         /\ \A k \in 1..Len(out) :
               "it_len" \in DOMAIN out[k].msg /\ out[k].msg.it_len = N
    ELSE /\ ~tracker.it_lenQ
         /\ "it_len" \notin DOMAIN tracker
         /\ \A k \in 1..Len(out) : "it_len" \notin DOMAIN out[k].msg

C5_Witness ==
    /\ OnePass
    /\ tracker.it.kind = "list"
    /\ tracker.it.isIter
    /\ N = 2
    /\ out[4].msg.it_len = 2

(* C6: a __next__ in which the wrapped iterator fails other than by        *)
(* StopIteration raises that failure and leaves the tracker untouched: no  *)
(* line is emitted, it_i is not incremented, end was and stays False.      *)
C6_Failure ==
    [][(hist' # hist /\ hist'[Len(hist')].res \in {"error", "TypeError"}) =>
          /\ out' = out
          /\ Attrs(tracker') = Attrs(tracker)
          /\ ~tracker.end /\ ~tracker'.end]_vars

C6_Witness ==
    /\ Len(hist) = 4
    /\ hist[1].op = "iter"
    /\ hist[4].res = "error"
    /\ Len(out) = 3
    /\ tracker.it_i = 2
    /\ ~tracker.end

(* C7: it_i is the number of elements __next__ has returned since          *)
(* construction: 0 at first, one more for each returned element, and       *)
(* unchanged by __iter__ (repeated or not), by an exhausted __next__ and   *)
(* by a failing __next__.                                                  *)
C7_Counter == tracker.it_i = Len(Produced)

C7_Witness ==
    /\ tracker.it_i = 2
    /\ \E i, j, k \in 1..Len(hist) :
          /\ i < j /\ j < k
          /\ hist[i].op = "iter"
          /\ hist[j].res = "value"
          /\ hist[k].op = "iter"
    /\ hist[Len(hist)].res = "StopIteration"

----------------------------------------------------------------------------
(* Vocabulary of the WhileTracker claims *)

Ids == {instances[h].id : h \in DOMAIN instances}

\* a step that is a call of WhileTracker.__bool__ (each prints one line)
IsEvaluate == out' # out

\* the attributes of a condition tracker other than expr
Kept(self) == [f \in DOMAIN self \ {"expr"} |-> self[f]]

(* C8: the first construction with a (cls, name) creates and registers a   *)
(* new instance; every later construction with that (cls, name) returns    *)
(* the same instance; a construction changes nothing of a registered       *)
(* instance but expr, and leaves the animation cursor alone; entries are   *)
(* never removed, no two registered instances have the same (cls, name),   *)
(* and it_i is never reset.                                                *)
C8_Dedup ==
    [][/\ \A k \in Keys :
             /\ (handles[k] = NoId /\ handles'[k] # NoId) =>
                     /\ handles'[k] \notin Ids
                     /\ \E h \in DOMAIN instances' \ DOMAIN instances :
                           /\ instances'[h].id = handles'[k]
                           /\ instances'[h].cls = k[1]
                           /\ instances'[h].name = k[2]
             /\ handles[k] # NoId => handles'[k] = handles[k]
       /\ ~IsEvaluate =>
             /\ prog' = prog
             /\ \A h \in DOMAIN instances : Kept(instances'[h]) = Kept(instances[h])
       /\ DOMAIN instances \subseteq DOMAIN instances'
       /\ \A h \in DOMAIN instances : instances'[h].it_i >= instances[h].it_i
       /\ \A g, h \in DOMAIN instances' :
             (instances'[g].cls = instances'[h].cls /\ instances'[g].name = instances'[h].name)
                 => g = h]_vars

(* C9: trackers constructed with distinct names, or with the same name and *)
(* distinct classes, are distinct instances.                               *)
C9_Distinct ==
    \A k1, k2 \in Keys :
        (k1 # k2 /\ handles[k1] # NoId /\ handles[k2] # NoId) => handles[k1] # handles[k2]

(* C10: a __bool__ called while expr is false sets end, returns false and  *)
(* does not increment it_i.                                                *)
C10_Terminal ==
    [][IsEvaluate =>
          \A h \in DOMAIN instances :
              (instances[h].id = call'.self /\ ~instances[h].expr) =>
                  /\ instances'[h].end
                  /\ call'.ret = FALSE
                  /\ instances'[h].it_i = instances[h].it_i]_vars

(* C11: every __bool__ returns the expr that the most recent construction  *)
(* with the (cls, name) of the evaluated tracker supplied, leaves expr as  *)
(* it was, and prints exactly one line, which ends with a newline iff the  *)
(* returned value is false and with the overwrite terminator iff true.     *)
C11_Returns ==
    [][IsEvaluate =>
          \A h \in DOMAIN instances :
              instances[h].id = call'.self =>
                  /\ call'.ret = supplied[<<instances[h].cls, instances[h].name>>]
                  /\ instances'[h].expr = instances[h].expr
                  /\ Len(out') = Len(out) + 1
                  /\ SubSeq(out', 1, Len(out)) = out
                  /\ out'[Len(out')].end = (IF call'.ret THEN "\r" ELSE "\n")]_vars

(* C12: the final flag of a loop tracker is one-directional: once end is   *)
(* True it is True in every later state.                                   *)
C12_Final ==
    [][/\ tracker.end => tracker'.end
       /\ \A h \in DOMAIN instances : instances[h].end => instances'[h].end]_vars

----------------------------------------------------------------------------
(* Claims about InfSeq *)

L == Len(prog.seq)

(* C13: over a non-empty backing sequence s of length L the k-th draw      *)
(* returns s[(k-1) mod L] and never fails, so draw k+L equals draw k; the  *)
(* backing sequence is never modified.                                     *)
C13_Cycle ==
    /\ [](L > 0 =>
            \A k \in 1..Len(hist) :
                /\ hist[k].res = "value"
                /\ hist[k].val = prog.seq[((k - 1) % L) + 1]
                /\ k > L => hist[k].val = hist[k - L].val)
    /\ [][prog'.seq = prog.seq]_vars

C13_Witness ==
    /\ prog.seq = Glyphs
    /\ Len(hist) = 8
    /\ \A k \in 1..4 : hist[k].val = Glyphs[k] /\ hist[k + 4].val = Glyphs[k]

(* C14 (as stated): over a non-empty backing sequence the cursor always    *)
(* satisfies 0 <= cursor < length.                                         *)
C14_Original == L > 0 => (0 <= prog.i /\ prog.i < L)

(* C14 (amended): over a non-empty backing sequence the cursor always      *)
(* satisfies 0 <= cursor <= length: it is 0 before the first draw and      *)
(* ((k-1) mod length) + 1 after the k-th, so it equals length right after  *)
(* the last element was drawn and is wrapped to 0 only by the next draw.   *)
C14_Cursor ==
    L > 0 =>
        /\ 0 <= prog.i /\ prog.i <= L
        /\ prog.i = (IF Len(hist) = 0 THEN 0 ELSE ((Len(hist) - 1) % L) + 1)

C14_Witness == L = 3 /\ Len(hist) = 6 /\ prog.i = 3

-----------------------------------------------------------------------------
(* _FuncTracker: one invocation in the event log *)

\* the "call" event of the invocation that event j belongs to
CallStart(j) ==
    CHOOSE s \in 1..j : /\ hist[s].op = "call"
                        /\ \A k \in (s + 1)..j : hist[k].op # "call"

Invocation(j) == SubSeq(hist, CallStart(j), j)

Ops(seq) == [k \in 1..Len(seq) |-> seq[k].op]

IsEntry(e) == e.op = "entry"

IsExit(e) == e.op = "exit"

NotFlag(e) == e.op # "flag"

\* C15: when the wrapped function raises, the invocation has printed no exit
\* message, has printed the entry message exactly once if the tracker has one
\* (and then before the wrapped function was called), has printed nothing but
\* that and the flags, and raises what the wrapped function raised.
C15_Failure ==
    \A j \in 1..Len(hist) :
        hist[j].op = "raise" =>
            LET seg == Invocation(j)
                entries == SelectSeq(seg, IsEntry)
            IN /\ SelectSeq(seg, IsExit) = <<>>
               /\ Len(entries) = IF Truthy(ftracker.call_msg) THEN 1 ELSE 0
               /\ entries # <<>> =>
                     /\ seg[2].op = "entry" /\ seg[3].op = "func"
                     /\ out[entries[1].line].msg =
                            [name |-> ftracker.name, msg |-> ftracker.call_msg]
               /\ seg[Len(seg)].lines - seg[1].lines
                     = Len(entries) + Len(SelectSeq(seg, IsFlag))
               /\ hist[j - 1].op = "func_raise"
               /\ hist[j].exc = hist[j - 1].exc

C15_Witness ==
    /\ Len(hist) > 0
    /\ hist[Len(hist)].op = "raise"
    /\ Truthy(ftracker.call_msg)
    /\ Truthy(ftracker.exit_msg)
    /\ SelectSeq(Invocation(Len(hist)), IsFlag) # <<>>

\* C16: an invocation that returns has, in this order, read a fresh call_time,
\* printed the entry message without elapsed time iff the tracker has one,
\* called the wrapped function once with the tracker before the original
\* arguments, printed the exit message with the time elapsed since call_time
\* iff the tracker has one, and returned the function's result; the function's
\* flags lie between the entry and the exit line, and every line ends with a
\* newline.
C16_Success ==
    /\ \A k \in 1..Len(out) : out[k].end = "\n"
    /\ \A j \in 1..Len(hist) :
          hist[j].op = "call" =>
              \A k \in 1..(j - 1) : hist[k].op = "call" => hist[k].t < hist[j].t
    /\ \A j \in 1..Len(hist) :
          hist[j].op = "return" =>
              LET seg == Invocation(j)
                  core == SelectSeq(seg, NotFlag)
                  entry == Truthy(ftracker.call_msg)
                  exit == Truthy(ftracker.exit_msg)
                  f == IF entry THEN 3 ELSE 2
              IN /\ Ops(core) = <<"call">>
                                   \o (IF entry THEN <<"entry">> ELSE <<>>)
                                   \o <<"func", "func_return">>
                                   \o (IF exit THEN <<"exit">> ELSE <<>>)
                                   \o <<"return">>
                 /\ \A k \in 1..Len(seg) :
                       seg[k].op = "flag" =>
                           /\ f < k
                           /\ \E r \in (k + 1)..Len(seg) : seg[r].op = "func_return"
                           /\ entry => seg[2].line < seg[k].line
                           /\ exit => seg[k].line < seg[Len(seg) - 1].line
                 /\ core[f].args = <<"self">> \o seg[1].args
                 /\ core[f + 1].val = seg[Len(seg)].val
                 /\ entry => out[seg[2].line].msg =
                                 [name |-> ftracker.name, msg |-> ftracker.call_msg]
                 /\ exit => LET e == seg[Len(seg) - 1]
                            IN out[e.line].msg =
                                   [name |-> ftracker.name, msg |-> ftracker.exit_msg,
                                    dtime |-> e.t - seg[1].t]
                 /\ seg[Len(seg)].lines - seg[1].lines = Len(seg) - 4

\* a second invocation, with both messages and a flag, has returned
C16_Witness ==
    /\ Len(hist) > 0
    /\ hist[Len(hist)].op = "return"
    /\ frame.calls = 2
    /\ Truthy(ftracker.call_msg)
    /\ Truthy(ftracker.exit_msg)
    /\ SelectSeq(Invocation(Len(hist)), IsFlag) # <<>>
    /\ Len(out) > 3

-----------------------------------------------------------------------------
(* WhileTrackerMeta.__call__ and WhileTracker.__bool__ run by two threads on
   one (cls, name).  heap holds the objects by identity, registry is
   WhileTrackerMeta.instances (hash -> identity); nothing in the code
   serializes the steps, so a thread may be preempted between any two. *)

Threads == {1, 2}

RaceKey == <<"WhileTracker", "loop">>

\* hash(RaceKey) in this process
RaceHash == 1

\* where a thread is between two operations
Boundary == {"call", "bool", "done"}

\* thread t takes a step to pc, with the changes upd to its other fields;
\* overlap records that it ran while another thread was inside an operation
Step(t, pc, upd) ==
    /\ threads' = [threads EXCEPT ![t] = upd @@ [pc |-> pc] @@ threads[t]]
    /\ overlap' = (overlap \/ \E u \in Threads \ {t} : threads[u].pc \notin Boundary)

call_test_blind(t) ==
    /\ threads[t].pc = "call"
    /\ \E expr \in BOOLEAN : Step(t, "create", [expr |-> expr])
    /\ UNCHANGED <<now, out, hist, tracker, whileVars, funcVars, heap, registry>>

\* h = hash((cls, name)); if h not in cls.instances
call_test(t) ==
    /\ threads[t].pc = "call"
    /\ \E expr \in BOOLEAN :
          Step(t, IF RaceHash \in DOMAIN registry THEN "expr" ELSE "create", [expr |-> expr])
    /\ UNCHANGED <<now, out, hist, tracker, whileVars, funcVars, heap, registry>>

\* cls.instances[h] = super().__call__(name, expr)
call_create(t) ==
    /\ threads[t].pc = "create"
    /\ LET id == Len(heap) + 1
           self == LoopTracker_init(RaceKey[2], now)
                   @@ [expr |-> threads[t].expr, cls |-> RaceKey[1], id |-> id]
       IN /\ heap' = Append(heap, self)
          /\ registry' = [h \in {RaceHash} |-> id]
    /\ now' = now + 1
    /\ Step(t, "expr", <<>>)
    /\ UNCHANGED <<out, hist, tracker, whileVars, funcVars>>

\* cls.instances[h].expr = expr
call_expr(t) ==
    /\ threads[t].pc = "expr"
    /\ heap' = [heap EXCEPT ![registry[RaceHash]].expr = threads[t].expr]
    /\ Step(t, "return", <<>>)
    /\ UNCHANGED <<now, out, hist, tracker, whileVars, funcVars, registry>>

\* return cls.instances[h]
call_return(t) ==
    /\ threads[t].pc = "return"
    /\ Step(t, "bool", [self |-> registry[RaceHash]])
    /\ UNCHANGED <<now, out, hist, tracker, whileVars, funcVars, heap, registry>>

\* self.end = not self.expr
bool_end(t) ==
    /\ threads[t].pc = "bool"
    /\ heap' = [heap EXCEPT ![threads[t].self].end = ~heap[threads[t].self].expr]
    /\ Step(t, "read", <<>>)
    /\ UNCHANGED <<now, out, hist, tracker, whileVars, funcVars, registry>>

\* self.it_i += 1: the read
bool_read(t) ==
    /\ threads[t].pc = "read"
    /\ Step(t, "write", [it_i |-> heap[threads[t].self].it_i])
    /\ UNCHANGED <<now, out, hist, tracker, whileVars, funcVars, heap, registry>>

\* self.it_i += 1: the write
bool_write(t) ==
    /\ threads[t].pc = "write"
    /\ heap' = [heap EXCEPT ![threads[t].self].it_i = threads[t].it_i + 1]
    /\ Step(t, "print", <<>>)
    /\ UNCHANGED <<now, out, hist, tracker, whileVars, funcVars, registry>>

\* self.print()
bool_print(t) ==
    /\ threads[t].pc = "print"
    /\ out' = print(heap[threads[t].self], WhileTracker_get_msg(heap[threads[t].self], now))
    /\ prog' = InfSeq_next(prog)
    /\ now' = now + 1
    /\ Step(t, "bool_return", <<>>)
    /\ UNCHANGED <<hist, tracker, instances, hashOf, call, handles, supplied, funcVars,
                   heap, registry>>

\* return self.expr
bool_return(t) ==
    /\ threads[t].pc = "bool_return"
    /\ Step(t, IF threads[t].rounds + 1 < MaxRounds THEN "call" ELSE "done",
            [rounds |-> threads[t].rounds + 1])
    /\ UNCHANGED <<now, out, hist, tracker, whileVars, funcVars, heap, registry>>

InitRace ==
    /\ now = 0
    /\ out = <<>>
    /\ hist = <<>>
    /\ tracker = ForTracker_init("loop", ListIterable(<<>>), FALSE, 0)
    /\ instances = <<>>
    /\ hashOf = <<>>
    /\ prog = InfSeq_init(Glyphs)
    /\ call = [self |-> NoId, ret |-> FALSE]
    /\ handles = <<>>
    /\ supplied = <<>>
    /\ NoFunc
    /\ heap = <<>>
    /\ registry = <<>>
    /\ threads = [t \in Threads |->
                     [pc |-> "call", expr |-> FALSE, self |-> NoId, it_i |-> 0, rounds |-> 0]]
    /\ overlap = FALSE

NextRace ==
    \E t \in Threads :
        \/ call_test(t)
        \/ call_create(t)
        \/ call_expr(t)
        \/ call_return(t)
        \/ bool_end(t)
        \/ bool_read(t)
        \/ bool_write(t)
        \/ bool_print(t)
        \/ bool_return(t)

SpecRace == InitRace /\ [][NextRace]_vars

\* the evaluations the threads have completed
Evaluations == threads[1].rounds + threads[2].rounds

AllDone == \A t \in Threads : threads[t].pc = "done"

\* the guarantees of the registry, for the one (cls, name) of the threads: at
\* most one instance is created, the threads have obtained the same instance,
\* and once every evaluation is complete it_i is their number
Guarantees ==
    /\ Len(heap) <= 1
    /\ \A a, b \in Threads :
          threads[a].self # NoId /\ threads[b].self # NoId
              => threads[a].self = threads[b].self
    /\ AllDone => heap[registry[RaceHash]].it_i = Evaluations

\* C18 as stated: the guarantees hold under every interleaving of the steps
\* of the two threads.
C18_Original == Guarantees

\* C18: the guarantees hold as long as no thread has run while another was
\* inside a construction or an evaluation.
C18_Serialized == ~overlap => Guarantees

C18_Witness ==
    /\ AllDone
    /\ ~overlap
    /\ Len(heap) = 1
    /\ heap[1].it_i = 2
    /\ Len(out) = 2

-----------------------------------------------------------------------------
\* the glyph of the k-th line printed in the process
Rotation(k) == Glyphs[((k - 1) % Len(Glyphs)) + 1]

\* C19: the animation cursor is shared by all condition trackers: the k-th
\* line printed by any of them carries the k-th glyph of the rotation, and the
\* cursor has advanced once per printed line, so constructions never move it;
\* two lines of one tracker are as many glyphs apart as lines were printed in
\* between, whoever printed them.
C19_Shared ==
    /\ \A k \in 1..Len(out) : out[k].msg.prog = Rotation(k)
    /\ prog.seq = Glyphs
    /\ prog.i = IF out = <<>> THEN 0 ELSE ((Len(out) - 1) % Len(Glyphs)) + 1

\* "loop" has printed its second line after a line of "other"
C19_Witness ==
    /\ Len(out) = 3
    /\ out[1].msg.name = "loop"
    /\ out[2].msg.name = "other"
    /\ out[3].msg.name = "loop"
    /\ out[3].msg.it_i = 2
    /\ out[3].msg.prog = "|"

-----------------------------------------------------------------------------
\* __next__ has raised StopIteration at least once
Exhausted == \E j \in 1..Len(hist) : hist[j].res = "StopIteration"

\* C20: once __next__ has raised StopIteration, every further __next__ raises
\* it again (also after another __iter__), it_i and end stay as they are, and
\* every further call prints exactly one line, which ends with a newline.
C20_Final ==
    [][Exhausted =>
          /\ tracker.end /\ tracker'.end
          /\ tracker'.it_i = tracker.it_i
          /\ Len(hist') = Len(hist) + 1
          /\ hist'[Len(hist')].op = "next" => hist'[Len(hist')].res = "StopIteration"
          /\ Len(out') = Len(out) + 1
          /\ SubSeq(out', 1, Len(out)) = out
          /\ out'[Len(out')].end = "\n"]_vars

\* after the exhaustion of a loop over two elements: one more __next__, then
\* __iter__ and __next__ again
C20_Witness ==
    /\ N = 2
    /\ Len(hist) = 6
    /\ hist[3].res = "StopIteration"
    /\ hist[4].op = "next"
    /\ hist[5].op = "iter"
    /\ hist[6].op = "next"
    /\ tracker.it_i = 2

====
